---- MODULE Spec2Model ----
(***************************************************************************)
(* The FastMCP proxy of src/mcpserver.py: one module-level session to a    *)
(* @playwright/mcp subprocess (_session, _stdio_cm, _session_cm), the      *)
(* lifespan that starts it, registers one proxy tool per discovered tool   *)
(* and stops it, and the proxy functions that forward tool calls.          *)
(*                                                                         *)
(* Everything runs on one asyncio event loop, so the code between two      *)
(* awaits is one atomic step; each action below is the code from one       *)
(* resumption up to and including the issue of the next await.             *)
(*                                                                         *)
(* lifespan is an async context manager handed to FastMCP (line 121); the  *)
(* framework enters it, and the server underneath enters it once per       *)
(* served connection, so several entries (Runs) may overlap or follow one  *)
(* another within one process.  Each entry creates at most one stdio       *)
(* context and one ClientSession context; both are named by the run that   *)
(* created them.                                                           *)
(***************************************************************************)
EXTENDS Integers, Sequences, FiniteSets, TLC

\* ---- bounds of the model ------------------------------------------------
MaxRuns == 2          \* lifespan entries within one process
MaxClients == 2       \* external clients invoking endpoints concurrently
MaxTools == 2         \* descriptors in one list_tools result
MaxReplyBlocks == 1   \* content blocks of a call_tool result (serving model)
MaxBlocks == 3        \* content blocks of a call_tool result (translation model)

\* ---- values -------------------------------------------------------------
None == 0             \* Python None for _session, _stdio_cm, _session_cm
Runs == 1..MaxRuns
Clients == 1..MaxClients
Names == {"click", "goto"}
NoDesc == ""          \* Tool.description: None or the empty string
Descs == {NoDesc, "Navigate"}
Tool == [name : Names, description : Descs]
ArgVals == {"{}", "{x:1}"}

RECURSIVE SeqsUpTo(_, _)
SeqsUpTo(S, n) ==
    IF n = 0 THEN {<<>>}
    ELSE LET shorter == SeqsUpTo(S, n - 1)
         IN  shorter \cup {Append(s, x) : s \in {t \in shorter : Len(t) = n - 1}, x \in S}

Catalogs == SeqsUpTo(Tool, MaxTools)

VARIABLES
    pc,            \* pc[r]: where lifespan entry r is suspended
    _session,      \* global _session (line 42)
    _stdio_cm,     \* global _stdio_cm (line 43)
    _session_cm,   \* global _session_cm (line 44)
    proc,          \* proc[r]: the subprocess of stdio context r
    chan,          \* chan[r]: the ClientSession context r
    initialized,   \* sessions whose initialize() handshake succeeded
    stdioExits,    \* stdioExits[r]: __aexit__ invocations on stdio context r
    sessionExits,  \* sessionExits[r]: __aexit__ invocations on ClientSession context r
    target,        \* target[r]: the object run r's pending await was issued on
    table,         \* FastMCP tool table: name -> [tool_name, description]
    inv,           \* inv[c]: the invocation of client c
    hist,          \* history of the lifecycle, read by the properties only
    tr             \* the translation model: input blocks and output string

vars == <<pc, _session, _stdio_cm, _session_cm, proc, chan, initialized,
          stdioExits, sessionExits, target, table, inv, hist, tr>>

\* ---- result translation (proxy_fn, lines 96-102) -------------------------
\* A Python string is a sequence of characters; a few multi-character tokens
\* stand for the fixed runs of characters json.dumps emits.
NL == "\n"
TextVals == {<<>>, <<"a">>, <<"b">>, <<"h", "e", "l", "l", "o">>}
DataVals == {<<"x">>}
TextContent(s) == [type |-> "text", text |-> s]
ImageContent(d) == [type |-> "image", data |-> d]
Blocks == {TextContent(s) : s \in TextVals} \cup {ImageContent(d) : d \in DataVals}
ReplyBlocks == {TextContent(<<"a">>)}

\* json.dumps(block.model_dump()): the block's fields as a JSON object
Dumps(block) ==
    <<"{", "\"type\"", ":", "\"">> \o <<block.type>> \o <<"\"", ",", "\"data\"", ":", "\"">>
        \o block.data \o <<"\"", "}">>

\* one turn of the loop of lines 97-101: the string appended for a block
Part(block) ==
    IF block.type = "text" THEN block.text ELSE Dumps(block)

\* the loop of lines 96-101: parts, in block order
RECURSIVE PartsOf(_)
PartsOf(content) ==
    IF content = <<>> THEN <<>>
    ELSE <<Part(Head(content))>> \o PartsOf(Tail(content))

\* a join that ends every item with the separator
RECURSIVE JoinTrailing(_, _)
JoinTrailing(sep, parts) ==
    IF parts = <<>> THEN <<>>
    ELSE parts[1] \o sep \o JoinTrailing(sep, Tail(parts))

\* str.join: the separator between consecutive items only
RECURSIVE Join(_, _)
Join(sep, parts) ==
    IF parts = <<>> THEN <<>>
    ELSE IF Len(parts) = 1 THEN parts[1]
    ELSE parts[1] \o sep \o Join(sep, Tail(parts))

\* lines 96-102: what proxy_fn returns for a call_tool result
Translate(content) == Join(<<NL>>, PartsOf(content))

\* ---- registration (lines 84-86, 89-107) ----------------------------------
\* line 91: tool.description or tool_name
Falsy(d) == d = NoDesc
\* a registration that describes every endpoint by its name
ToolDescriptionNameOnly(tool) == tool.name

ToolDescription(tool) ==
    IF Falsy(tool.description) THEN tool.name ELSE tool.description

\* line 107, mcp.add_tool: FastMCP's tool manager keeps the tool already
\* registered under a name and returns it; a new name is inserted.
AddTool(tbl, fn, name, description) ==
    IF name \in DOMAIN tbl THEN tbl
    ELSE [k \in DOMAIN tbl \cup {name} |->
            IF k = name THEN [tool_name |-> fn, description |-> description]
            ELSE tbl[k]]

\* lines 89-107: proxy_fn closes over tool_name, a local of this call
RegisterTool(tbl, tool) ==
    AddTool(tbl, tool.name, tool.name, ToolDescription(tool))

\* lines 84-86: for tool in tools: _register_tool(tool)
RECURSIVE RegisterAll(_, _)
RegisterAll(tbl, tools) ==
    IF tools = <<>> THEN tbl
    ELSE RegisterAll(RegisterTool(tbl, Head(tools)), Tail(tools))

NamesOf(tools) == {tools[i].name : i \in 1..Len(tools)}
EmptyTable == [k \in {} |-> [tool_name |-> "", description |-> ""]]

\* ---- the serving model: state ---------------------------------------------
FailedPCs == {"failedSpawn", "failedEnter", "failedInit", "failedList", "failedStop"}
PCs == {"idle", "spawn", "enter", "init", "list", "ready", "stop1", "stop2", "done"}
           \cup FailedPCs

ReplyContents == SeqsUpTo(ReplyBlocks, MaxReplyBlocks)

IdleInv ==
    [st |-> "idle",        \* idle | inflight | ok | err
     key |-> "",           \* while in flight: the endpoint the client invoked
     args |-> "",          \* while in flight: the client's kwargs
     sess |-> None,        \* while in flight: the session the call was issued on
     live |-> None,        \* while in flight: the live session at the issue, from hist
     tool |-> "",          \* while in flight: name sent to call_tool
     sent |-> "",          \* while in flight: arguments sent to call_tool
     n |-> 0,              \* backend calls issued for this invocation
     torn |-> FALSE,       \* the session's __aexit__ had been called at the issue
     lost |-> FALSE,       \* the session's subprocess had exited at the issue
     result |-> <<>>,      \* once ok: the string returned to the client
     isError |-> FALSE]    \* once ok: CallToolResult.isError of the reply

InitHist ==
    [lastEst |-> None,                      \* session most recently set by line 55
     cleared |-> FALSE,                     \* line 68 ran since then
     regRun |-> None,                       \* run of the latest registration
     regCatalog |-> <<>>,                   \* what its list_tools returned
     regBefore |-> {},                      \* names in the table before it
     discovered |-> {},                     \* name sets of all finished discoveries
     regSession |-> [k \in Names |-> None], \* _session when k was registered
     steps |-> [r \in Runs |-> <<>>],       \* what each lifespan entry did, in order
     spawnFailed |-> {},                    \* entries whose line 52 raised
     attempted |-> {}]                      \* sessions a backend request was sent on

InitTr == [content |-> <<>>, out |-> <<>>, done |-> FALSE]

Init ==
    /\ pc = [r \in Runs |-> "idle"]
    /\ _session = None
    /\ _stdio_cm = None
    /\ _session_cm = None
    /\ proc = [r \in Runs |-> "none"]
    /\ chan = [r \in Runs |-> "none"]
    /\ initialized = {}
    /\ stdioExits = [r \in Runs |-> 0]
    /\ sessionExits = [r \in Runs |-> 0]
    /\ target = [r \in Runs |-> None]
    /\ table = EmptyTable
    /\ inv = [c \in Clients |-> IdleInv]
    /\ hist = InitHist
    /\ tr = InitTr

\* the backend behind session s can answer a request
Answers(s) == s /= None /\ proc[s] = "live" /\ chan[s] = "open" /\ s \in initialized

\* ---- start_playwright_session (lines 47-58) -------------------------------
\* lifespan line 115, start lines 51-52: create the stdio context, await its entry
LifespanEnter(r) ==
    /\ pc[r] = "idle"
    /\ \A q \in Runs : q < r => pc[q] /= "idle"
    /\ _stdio_cm' = r
    /\ pc' = [pc EXCEPT ![r] = "spawn"]
    /\ UNCHANGED <<_session, _session_cm, proc, chan, initialized, stdioExits,
                   sessionExits, target, table, inv, hist, tr>>

\* line 52 returns the streams; lines 54-55: create the ClientSession, await its entry
SpawnOk(r) ==
    /\ pc[r] = "spawn"
    /\ proc' = [proc EXCEPT ![r] = "live"]
    /\ _session_cm' = r
    /\ hist' = [hist EXCEPT !.steps[r] = Append(@, "spawn")]
    /\ pc' = [pc EXCEPT ![r] = "enter"]
    /\ UNCHANGED <<_session, _stdio_cm, chan, initialized, stdioExits,
                   sessionExits, target, table, inv, tr>>

\* a start that swallows the failure of line 52 and carries on with line 54
SpawnFailIgnored(r) ==
    /\ pc[r] = "spawn"
    /\ _session_cm' = r
    /\ hist' = [hist EXCEPT !.spawnFailed = @ \cup {r}]
    /\ pc' = [pc EXCEPT ![r] = "enter"]
    /\ UNCHANGED <<_session, _stdio_cm, proc, chan, initialized, stdioExits,
                   sessionExits, target, table, inv, tr>>

\* line 52 raises: the subprocess could not be spawned
SpawnFail(r) ==
    /\ pc[r] = "spawn"
    /\ pc' = [pc EXCEPT ![r] = "failedSpawn"]
    /\ hist' = [hist EXCEPT !.spawnFailed = @ \cup {r}]
    /\ UNCHANGED <<_session, _stdio_cm, _session_cm, proc, chan, initialized,
                   stdioExits, sessionExits, target, table, inv, tr>>

\* line 55 assigns _session; line 57: await _session.initialize()
EnterOk(r) ==
    /\ pc[r] = "enter"
    /\ chan' = [chan EXCEPT ![r] = "open"]
    /\ _session' = r
    /\ hist' = [hist EXCEPT !.lastEst = r, !.cleared = FALSE,
                             !.steps[r] = Append(@, "session"),
                             !.attempted = @ \cup {r}]
    /\ pc' = [pc EXCEPT ![r] = "init"]
    /\ UNCHANGED <<_stdio_cm, _session_cm, proc, initialized, stdioExits,
                   sessionExits, target, table, inv, tr>>

\* line 55 raises
EnterFail(r) ==
    /\ pc[r] = "enter"
    /\ pc' = [pc EXCEPT ![r] = "failedEnter"]
    /\ UNCHANGED <<_session, _stdio_cm, _session_cm, proc, chan, initialized,
                   stdioExits, sessionExits, target, table, inv, hist, tr>>

\* line 57 returns, start returns; lifespan line 116, register_proxy_tools
\* line 80: _session.list_tools() on whatever _session is now
InitOk(r) ==
    /\ pc[r] = "init"
    /\ proc[r] = "live" /\ chan[r] = "open"
    /\ initialized' = initialized \cup {r}
    /\ IF _session = None
       THEN /\ pc' = [pc EXCEPT ![r] = "failedList"]
            /\ hist' = [hist EXCEPT !.steps[r] = Append(@, "initialized")]
            /\ UNCHANGED target
       ELSE /\ pc' = [pc EXCEPT ![r] = "list"]
            /\ hist' = [hist EXCEPT !.steps[r] = @ \o <<"initialized", "list_tools">>,
                                     !.attempted = @ \cup {_session}]
            /\ target' = [target EXCEPT ![r] = _session]
    /\ UNCHANGED <<_session, _stdio_cm, _session_cm, proc, chan, stdioExits,
                   sessionExits, table, inv, tr>>

\* line 57 raises: handshake rejected or channel broken
InitFail(r) ==
    /\ pc[r] = "init"
    /\ pc' = [pc EXCEPT ![r] = "failedInit"]
    /\ UNCHANGED <<_session, _stdio_cm, _session_cm, proc, chan, initialized,
                   stdioExits, sessionExits, target, table, inv, hist, tr>>

\* ---- register_proxy_tools (lines 74-86) and the yield (line 117) ----------
\* line 80 returns tools; lines 81-86 register them all; lifespan yields
ListOk(r, tools) ==
    /\ pc[r] = "list"
    /\ Answers(target[r])
    /\ table' = RegisterAll(table, tools)
    /\ hist' = [hist EXCEPT
                  !.regRun = r,
                  !.regCatalog = tools,
                  !.regBefore = DOMAIN table,
                  !.discovered = @ \cup {NamesOf(tools)},
                  !.regSession = [k \in Names |->
                                    IF k \in NamesOf(tools) \ DOMAIN table
                                    THEN _session ELSE @[k]],
                  !.steps[r] = @ \o <<"register", "yield">>]
    /\ pc' = [pc EXCEPT ![r] = "ready"]
    /\ UNCHANGED <<_session, _stdio_cm, _session_cm, proc, chan, initialized,
                   stdioExits, sessionExits, target, inv, tr>>

\* line 80 raises
ListFail(r) ==
    /\ pc[r] = "list"
    /\ pc' = [pc EXCEPT ![r] = "failedList"]
    /\ UNCHANGED <<_session, _stdio_cm, _session_cm, proc, chan, initialized,
                   stdioExits, sessionExits, target, table, inv, hist, tr>>

\* ---- stop_playwright_session (lines 61-69) --------------------------------
\* line 65 called: ClientSession.__aexit__ closes the context on the call
IssueSessionExit(t) ==
    /\ sessionExits' = [sessionExits EXCEPT ![t] = @ + 1]
    /\ chan' = [chan EXCEPT ![t] = IF @ = "open" THEN "closed" ELSE @]

\* lines 66-68, run once line 65 is behind: exit the stdio context if there is
\* one, else clear _session and return to lifespan, which ends
StopFromStdio(r) ==
    IF _stdio_cm /= None
    THEN /\ stdioExits' = [stdioExits EXCEPT ![_stdio_cm] = @ + 1]
         /\ target' = [target EXCEPT ![r] = _stdio_cm]
         /\ pc' = [pc EXCEPT ![r] = "stop2"]
         /\ hist' = [hist EXCEPT !.steps[r] = Append(@, "stdio_exit")]
         /\ UNCHANGED _session
    ELSE /\ _session' = None
         /\ hist' = [hist EXCEPT !.cleared = TRUE, !.steps[r] = Append(@, "clear")]
         /\ pc' = [pc EXCEPT ![r] = "done"]
         /\ UNCHANGED <<stdioExits, target>>

\* a stop that goes straight to the stdio context and leaves the
\* ClientSession context alone
ShutdownSkipSession(r) ==
    /\ pc[r] = "ready"
    /\ StopFromStdio(r)
    /\ UNCHANGED <<sessionExits, chan>>
    /\ UNCHANGED <<_stdio_cm, _session_cm, proc, initialized, table, inv, tr>>

\* lifespan resumes after the yield (line 118); stop lines 64-65
Shutdown(r) ==
    /\ pc[r] = "ready"
    /\ IF _session_cm /= None
       THEN /\ IssueSessionExit(_session_cm)
            /\ target' = [target EXCEPT ![r] = _session_cm]
            /\ pc' = [pc EXCEPT ![r] = "stop1"]
            /\ hist' = [hist EXCEPT !.steps[r] = Append(@, "session_exit")]
            /\ UNCHANGED <<_session, stdioExits>>
       ELSE /\ StopFromStdio(r)
            /\ UNCHANGED <<sessionExits, chan>>
    /\ UNCHANGED <<_stdio_cm, _session_cm, proc, initialized, table, inv, tr>>

\* line 65 returns; lines 66-67
SessionExitOk(r) ==
    /\ pc[r] = "stop1"
    /\ StopFromStdio(r)
    /\ UNCHANGED <<_stdio_cm, _session_cm, proc, chan, initialized, sessionExits,
                   table, inv, tr>>

\* line 65 raises: stop and lifespan end with the exception
SessionExitFail(r) ==
    /\ pc[r] = "stop1"
    /\ pc' = [pc EXCEPT ![r] = "failedStop"]
    /\ UNCHANGED <<_session, _stdio_cm, _session_cm, proc, chan, initialized,
                   stdioExits, sessionExits, target, table, inv, hist, tr>>

\* line 67 returns: the subprocess of that context is gone; line 68
StdioExitOk(r) ==
    /\ pc[r] = "stop2"
    /\ proc' = [proc EXCEPT ![target[r]] = IF @ = "live" THEN "reaped" ELSE @]
    /\ _session' = None
    /\ hist' = [hist EXCEPT !.cleared = TRUE, !.steps[r] = Append(@, "clear")]
    /\ pc' = [pc EXCEPT ![r] = "done"]
    /\ UNCHANGED <<_stdio_cm, _session_cm, chan, initialized, stdioExits,
                   sessionExits, target, table, inv, tr>>

\* line 67 raises: line 68 is skipped
StdioExitFail(r) ==
    /\ pc[r] = "stop2"
    /\ pc' = [pc EXCEPT ![r] = "failedStop"]
    /\ UNCHANGED <<_session, _stdio_cm, _session_cm, proc, chan, initialized,
                   stdioExits, sessionExits, target, table, inv, hist, tr>>

\* ---- the backend dying on its own ------------------------------------------
\* the @playwright/mcp subprocess launched at lines 51-52 exits by itself
BackendExit(r) ==
    /\ proc[r] = "live"
    /\ proc' = [proc EXCEPT ![r] = "exited"]
    /\ UNCHANGED <<pc, _session, _stdio_cm, _session_cm, chan, initialized,
                   stdioExits, sessionExits, target, table, inv, hist, tr>>

\* ---- proxy_fn (lines 93-102) ----------------------------------------------
\* the front dispatches a client's call while a lifespan is at its yield
AcceptsCalls == \E r \in Runs : pc[r] = "ready"

\* the session in force for the outside world: the one line 55 set last,
\* unless line 68 cleared it since
LiveSession == IF hist.cleared THEN None ELSE hist.lastEst

\* a proxy_fn that keeps the session of the time it was registered
ProxySessionBound(key) == hist.regSession[key]

\* line 95: proxy_fn reads the global _session when it is called
ProxySession(key) == _session

\* a proxy_fn that reads the registration loop's variable when it is called:
\* every endpoint forwards under the name registered last
ForwardedNameLate(key) ==
    IF hist.regCatalog = <<>> THEN key
    ELSE hist.regCatalog[Len(hist.regCatalog)].name

\* line 95: tool_name, the closure's own cell, set at line 90
ForwardedName(key) == table[key].tool_name

\* line 95: arguments=kwargs
ForwardedArgs(kwargs) == kwargs

\* a client invokes endpoint key; line 95 issues the backend call, or raises
\* AttributeError when _session is None
Invoke(c, key, kwargs) ==
    /\ AcceptsCalls
    /\ key \in DOMAIN table
    /\ inv[c].st /= "inflight"
    /\ \A d \in Clients : d < c => inv[d].st /= "idle"
    /\ LET s == ProxySession(key) IN
       inv' = [inv EXCEPT ![c] =
                 IF s = None
                 THEN [IdleInv EXCEPT !.st = "err"]
                 ELSE [IdleInv EXCEPT !.st = "inflight", !.key = key, !.args = kwargs,
                                      !.sess = s, !.live = LiveSession,
                                      !.tool = ForwardedName(key),
                                      !.sent = ForwardedArgs(kwargs), !.n = 1,
                                      !.torn = sessionExits[s] > 0,
                                      !.lost = proc[s] = "exited"]]
    /\ hist' = [hist EXCEPT !.attempted = @ \cup ({ProxySession(key)} \ {None})]
    /\ UNCHANGED <<pc, _session, _stdio_cm, _session_cm, proc, chan, initialized,
                   stdioExits, sessionExits, target, table, tr>>

\* line 95 returns a result; lines 96-102 translate it and return the string
CallReturn(c, content, isError) ==
    /\ inv[c].st = "inflight"
    /\ Answers(inv[c].sess)
    /\ inv' = [inv EXCEPT ![c] =
                 [IdleInv EXCEPT !.st = "ok", !.n = inv[c].n,
                                 !.result = Translate(content), !.isError = isError]]
    /\ UNCHANGED <<pc, _session, _stdio_cm, _session_cm, proc, chan, initialized,
                   stdioExits, sessionExits, target, table, hist, tr>>

\* line 95 raises: the exception reaches the client
CallRaise(c) ==
    /\ inv[c].st = "inflight"
    /\ inv' = [inv EXCEPT ![c] = [IdleInv EXCEPT !.st = "err", !.n = inv[c].n,
                                                !.lost = inv[c].lost]]
    /\ UNCHANGED <<pc, _session, _stdio_cm, _session_cm, proc, chan, initialized,
                   stdioExits, sessionExits, target, table, hist, tr>>

\* ---- specifications --------------------------------------------------------
\* the steps of the lifespan entries, with list_tools answering from C
LifecycleStep(C) ==
    \/ \E r \in Runs : LifespanEnter(r)
    \/ \E r \in Runs : SpawnOk(r)
    \/ \E r \in Runs : SpawnFail(r)
    \/ \E r \in Runs : EnterOk(r)
    \/ \E r \in Runs : EnterFail(r)
    \/ \E r \in Runs : InitOk(r)
    \/ \E r \in Runs : InitFail(r)
    \/ \E r \in Runs, tools \in C : ListOk(r, tools)
    \/ \E r \in Runs : ListFail(r)
    \/ \E r \in Runs : Shutdown(r)
    \/ \E r \in Runs : SessionExitOk(r)
    \/ \E r \in Runs : SessionExitFail(r)
    \/ \E r \in Runs : StdioExitOk(r)
    \/ \E r \in Runs : StdioExitFail(r)

\* the steps of the clients' invocations
ClientStep ==
    \/ \E c \in Clients, key \in Names, kwargs \in ArgVals : Invoke(c, key, kwargs)
    \/ \E c \in Clients, content \in ReplyContents, isError \in BOOLEAN :
          CallReturn(c, content, isError)
    \/ \E c \in Clients : CallRaise(c)

\* catalogs of described tools with distinct names
ServingCatalogs ==
    {tools \in Catalogs :
        /\ \A i \in 1..Len(tools) : tools[i].description = "Navigate"
        /\ Cardinality(NamesOf(tools)) = Len(tools)}

\* lifecycle and invocations together
Next == LifecycleStep(ServingCatalogs) \/ ClientStep

Spec == Init /\ [][Next]_vars

\* lifecycle and invocations with a backend that may exit, one catalog
LossCatalogs == {<<[name |-> "click", description |-> "Navigate"]>>}

NextBackendLoss ==
    \/ LifecycleStep(LossCatalogs)
    \/ ClientStep
    \/ \E r \in Runs : BackendExit(r)

SpecBackendLoss == Init /\ [][NextBackendLoss]_vars

\* line 65: ClientSession.__aexit__ cancels the session's own task group, so
\* the await ends, normally or with an exception, whatever the backend does
SessionExitReturns == \E r \in Runs : SessionExitOk(r) \/ SessionExitFail(r)

\* lifecycle and invocations; of all the awaits only line 65 is sure to end:
\* lines 52, 55, 57, 80, 95 and 67 wait on the backend with no timeout
SpecWaits == Init /\ [][Next]_vars /\ WF_vars(SessionExitReturns)

\* the lifecycle alone, over every catalog
NextLifecycle == LifecycleStep(Catalogs)

SpecLifecycle == Init /\ [][NextLifecycle]_vars

\* ---- specification of the translation model -------------------------------
Contents == SeqsUpTo(Blocks, MaxBlocks)

InitTranslate ==
    /\ pc = [r \in Runs |-> "idle"]
    /\ _session = None
    /\ _stdio_cm = None
    /\ _session_cm = None
    /\ proc = [r \in Runs |-> "none"]
    /\ chan = [r \in Runs |-> "none"]
    /\ initialized = {}
    /\ stdioExits = [r \in Runs |-> 0]
    /\ sessionExits = [r \in Runs |-> 0]
    /\ target = [r \in Runs |-> None]
    /\ table = EmptyTable
    /\ inv = [c \in Clients |-> IdleInv]
    /\ hist = InitHist
    /\ \E content \in Contents : tr = [content |-> content, out |-> <<>>, done |-> FALSE]

\* lines 96-102 applied to the result line 95 returned
ProxyTranslate ==
    /\ ~tr.done
    /\ tr' = [tr EXCEPT !.out = Translate(tr.content), !.done = TRUE]
    /\ UNCHANGED <<pc, _session, _stdio_cm, _session_cm, proc, chan, initialized,
                   stdioExits, sessionExits, target, table, inv, hist>>

NextTranslate == ProxyTranslate

SpecTranslate == InitTranslate /\ [][NextTranslate]_vars

\* ---- properties ------------------------------------------------------------
InFlight(c) == inv[c].st = "inflight"
HasDuplicate(tools) == Cardinality(NamesOf(tools)) < Len(tools)
Registered == hist.regRun /= None
StartFailed(r) == pc[r] \in {"failedSpawn", "failedEnter", "failedInit", "failedList"}
Ended(r) == pc[r] \in FailedPCs \cup {"done"}

C2_AtMostOneSession ==
    Cardinality({r \in Runs : proc[r] = "live"}) <= 1

\* C3: while the service accepts calls the table is empty or holds exactly the
\* names of one finished discovery; a populated table implies a finished
\* handshake and discovery; and once a start, handshake or discovery has
\* failed, a populated table is never served without a session that
\* completed its handshake.
C3_TableAllOrNothing ==
    /\ AcceptsCalls => (DOMAIN table = {} \/ DOMAIN table \in hist.discovered)
    /\ DOMAIN table /= {} => (initialized /= {} /\ hist.discovered /= {})
    /\ ((\E r \in Runs : StartFailed(r)) /\ AcceptsCalls /\ DOMAIN table /= {})
          => _session \in initialized

\* C4: after a registration of N descriptors with unique names, the table has
\* exactly N endpoints, one under each discovered name, each with that
\* descriptor's own description.
C4_TableMatchesDiscovery ==
    (Registered /\ ~HasDuplicate(hist.regCatalog)) =>
        /\ Cardinality(DOMAIN table) = Len(hist.regCatalog)
        /\ \A i \in 1..Len(hist.regCatalog) :
              LET tool == hist.regCatalog[i] IN
              /\ tool.name \in DOMAIN table
              /\ table[tool.name].tool_name = tool.name
              /\ table[tool.name].description = tool.description

\* C4 amended: after a registration of N descriptors with unique names, the
\* table has an endpoint under each discovered name and nothing else new,
\* exactly N endpoints when it was empty before; each endpoint this
\* registration added has the descriptor's description, or the tool's name
\* when the description is absent or empty.
C4_TableMatchesDiscoveryAmended ==
    (Registered /\ ~HasDuplicate(hist.regCatalog)) =>
        /\ DOMAIN table = hist.regBefore \cup NamesOf(hist.regCatalog)
        /\ hist.regBefore = {} => Cardinality(DOMAIN table) = Len(hist.regCatalog)
        /\ \A i \in 1..Len(hist.regCatalog) :
              LET tool == hist.regCatalog[i] IN
              /\ tool.name \in DOMAIN table
              /\ table[tool.name].tool_name = tool.name
              /\ tool.name \notin hist.regBefore =>
                    table[tool.name].description =
                        (IF tool.description = NoDesc THEN tool.name
                         ELSE tool.description)

\* C4 witness: a first registration of two tools, one described, one not
C4_Witness ==
    /\ Registered /\ hist.regBefore = {}
    /\ Len(hist.regCatalog) = 2 /\ ~HasDuplicate(hist.regCatalog)
    /\ hist.regCatalog[1].description = NoDesc
    /\ hist.regCatalog[2].description /= NoDesc
    /\ Cardinality(DOMAIN table) = 2

\* C5: the string returned for a result is its blocks' strings in block
\* order, a Text block's text verbatim and any other block's JSON dump, with
\* one newline between consecutive blocks and none before the first or after
\* the last; [Text("hello")] gives "hello", [Text("a"), Text("b")] gives
\* "a\nb", and no block gives the empty string.
ExpectedPart(block) ==
    IF block.type = "text" THEN block.text
    ELSE <<"{", "\"type\"", ":", "\"", "image", "\"", ",", "\"data\"", ":", "\"">>
             \o block.data \o <<"\"", "}">>

RECURSIVE OffsetOf(_, _)
OffsetOf(content, i) ==
    IF i = 1 THEN 0
    ELSE OffsetOf(content, i - 1) + Len(ExpectedPart(content[i - 1])) + 1

C5_TranslationJoinsInOrder ==
    tr.done =>
        LET content == tr.content
            n == Len(content)
        IN  /\ n = 0 => tr.out = <<>>
            /\ n > 0 => Len(tr.out) = OffsetOf(content, n) + Len(ExpectedPart(content[n]))
            /\ \A i \in 1..n :
                  /\ \A k \in 1..Len(ExpectedPart(content[i])) :
                        tr.out[OffsetOf(content, i) + k] = ExpectedPart(content[i])[k]
                  /\ i < n =>
                        tr.out[OffsetOf(content, i) + Len(ExpectedPart(content[i])) + 1] = NL
            /\ content = <<TextContent(<<"h", "e", "l", "l", "o">>)>>
                  => tr.out = <<"h", "e", "l", "l", "o">>
            /\ content = <<TextContent(<<"a">>), TextContent(<<"b">>)>>
                  => tr.out = <<"a", NL, "b">>

\* C5 witness: a result of a text block, an image block and an empty text
\* block has been translated
C5_Witness ==
    /\ tr.done
    /\ tr.content = <<TextContent(<<"a">>), ImageContent(<<"x">>), TextContent(<<>>)>>
    /\ tr.out = <<"a", NL, "{", "\"type\"", ":", "\"", "image", "\"", ",", "\"data\"",
                  ":", "\"", "x", "\"", "}", NL>>

\* C6: an invocation of endpoint key with kwargs has issued exactly one
\* backend call, under the endpoint's own name and with the caller's
\* arguments; a completed one has issued exactly one.
C6_OneCallOwnNameSameArgs ==
    \A c \in Clients :
        /\ InFlight(c) =>
              (inv[c].n = 1 /\ inv[c].tool = inv[c].key /\ inv[c].sent = inv[c].args)
        /\ inv[c].st = "ok" => inv[c].n = 1

\* C6 witness: two endpoints are registered; a call of the one registered
\* first is in flight while another invocation has completed
C6_Witness ==
    \E c, d \in Clients :
        /\ Len(hist.regCatalog) = 2 /\ Cardinality(DOMAIN table) = 2
        /\ InFlight(c) /\ inv[c].key = hist.regCatalog[1].name
        /\ inv[c].args = "{x:1}"
        /\ inv[d].st = "ok"

\* C7: a discovery with a duplicate name never leaves its run ready: the
\* registration ends in failedList.
C7_DuplicateRejected ==
    (Registered /\ HasDuplicate(hist.regCatalog)) => pc[hist.regRun] = "failedList"

\* C8: at most one backend call is in flight on a session at any time.
C8_OneInFlight ==
    \A s \in Runs : Cardinality({c \in Clients : InFlight(c) /\ inv[c].sess = s}) <= 1

\* C9: no context is closed twice: __aexit__ runs at most once on each
\* ClientSession context and on each stdio context.
C9_StopIdempotent ==
    \A r \in Runs : sessionExits[r] <= 1 /\ stdioExits[r] <= 1

\* C10: when a lifespan entry has ended, by a failure or by its stop, the
\* subprocess it spawned is no longer alive.
C10_ReleasedOnEveryExit ==
    \A r \in Runs : Ended(r) => proc[r] /= "live"

\* C11: a lifespan entry whose subprocess failed to spawn ends failed, has
\* no subprocess, registered no endpoint, and no initialize, list_tools or
\* call_tool was ever sent on its session; where no entry got past the
\* spawn, the table is empty and no backend call was attempted at all.
C11_SpawnFailureStopsEverything ==
    /\ \A r \in hist.spawnFailed :
          /\ pc[r] = "failedSpawn"
          /\ proc[r] = "none" /\ chan[r] = "none"
          /\ hist.steps[r] = <<>>
          /\ r \notin hist.attempted
          /\ \A c \in Clients : InFlight(c) => inv[c].sess /= r
    /\ (hist.spawnFailed /= {} /\ \A q \in Runs : pc[q] \in {"idle", "spawn", "failedSpawn"})
          => (DOMAIN table = {} /\ hist.attempted = {}
              /\ \A c \in Clients : inv[c].st = "idle")

\* C11 witness: entry 1 failed to spawn and no other entry has started
C11_Witness ==
    /\ 1 \in hist.spawnFailed
    /\ pc[1] = "failedSpawn"
    /\ \A q \in Runs \ {1} : pc[q] = "idle"

\* C12: a reply the backend marks as an operation-level error never reaches
\* the client as a normal result string.
C12_BackendErrorIsAnError ==
    \A c \in Clients : inv[c].st = "ok" => ~inv[c].isError

\* C13: once an invocation issued after the backend subprocess exited has
\* failed, no lifespan entry is still at its yield (READY).
C13_LeavesReadyOnSessionLoss ==
    (\E c \in Clients : inv[c].st = "err" /\ inv[c].lost) => ~AcceptsCalls

\* C14: no stop ends with the exception of a teardown step: every stop that
\* has ended went on through lines 66-68 and finished.
C14_ShutdownAlwaysCompletes ==
    \A r \in Runs : pc[r] /= "failedStop"

\* C15: no backend call is issued on a session after its teardown has
\* started: a call in flight was issued before __aexit__ was called on the
\* session's context.
C15_NoCallAfterTeardownStarted ==
    \A c \in Clients : InFlight(c) => ~inv[c].torn

\* C17: when a start that follows a completed stop has reached READY, the
\* table holds exactly the operations of the new discovery, with the new
\* descriptors' descriptions.
C17_RestartGivesFreshTable ==
    (/\ Registered
     /\ pc[hist.regRun] = "ready"
     /\ _session = hist.regRun /\ Answers(_session)
     /\ _session_cm = hist.regRun /\ _stdio_cm = hist.regRun
     /\ \E q \in Runs : /\ q /= hist.regRun /\ pc[q] = "done"
                         /\ proc[q] = "reaped" /\ chan[q] = "closed"
     /\ \A q \in Runs \ {hist.regRun} : pc[q] \in {"idle", "done"})
        => /\ DOMAIN table = NamesOf(hist.regCatalog)
           /\ ~HasDuplicate(hist.regCatalog) =>
                 \A i \in 1..Len(hist.regCatalog) :
                    table[hist.regCatalog[i].name].description
                        = ToolDescription(hist.regCatalog[i])

\* C19: in every state where the front serves a non-empty table, _session
\* is a live session whose handshake completed.
C19_ServedTableHasLiveSession ==
    (AcceptsCalls /\ DOMAIN table /= {}) => Answers(_session)

\* C16: every wait on the backend ends: a lifespan awaiting the handshake or
\* the catalog listing eventually leaves that await, and an invocation
\* awaiting the backend's response eventually completes, with a result or
\* with an error.
C16_EveryWaitEnds ==
    /\ \A r \in Runs : (pc[r] = "init") ~> (pc[r] /= "init")
    /\ \A r \in Runs : (pc[r] = "list") ~> (pc[r] /= "list")
    /\ \A c \in Clients : InFlight(c) ~> ~InFlight(c)

IsPrefix(s, t) == Len(s) <= Len(t) /\ s = SubSeq(t, 1, Len(s))
StartOrder == <<"spawn", "session", "initialized", "list_tools", "register", "yield">>
StopOrder == <<"session_exit", "stdio_exit", "clear">>
IsStartEvent(e) == e \in {StartOrder[i] : i \in 1..Len(StartOrder)}
IsStopEvent(e) == e \in {StopOrder[i] : i \in 1..Len(StopOrder)}
HasYielded(r) == \E i \in 1..Len(hist.steps[r]) : hist.steps[r][i] = "yield"

\* within one lifespan the start steps happen in the fixed order, the catalog
\* is requested once, stop comes after the yield only, and the yield is
\* reached only with every earlier step done
StepsInOrder ==
    \A r \in Runs :
        /\ IsPrefix(SelectSeq(hist.steps[r], IsStartEvent), StartOrder)
        /\ SelectSeq(hist.steps[r], IsStopEvent) /= <<>> =>
              /\ HasYielded(r)
              /\ SubSeq(hist.steps[r], 1, Len(StartOrder)) = StartOrder
        /\ pc[r] = "ready" => hist.steps[r] = StartOrder
        /\ StartFailed(r) => ~HasYielded(r)

\* C18: the steps of one lifespan happen in the fixed order (spawn, session,
\* initialize, one list_tools, registration, yield, serving, stop), the yield
\* is never reached after a failed step, and a list_tools or call_tool
\* request in flight was sent on a session whose initialize had completed.
C18_FixedOrderAndInitializeFirst ==
    /\ StepsInOrder
    /\ \A r \in Runs : pc[r] = "list" => target[r] \in initialized
    /\ \A c \in Clients : InFlight(c) => inv[c].sess \in initialized

\* C20: in every stop, __aexit__ is called on the ClientSession context
\* first and on the stdio context after it has returned, and _session is
\* cleared only when both have returned.
C20_SessionClosedBeforeStdio ==
    \A r \in Runs :
        LET stops == SelectSeq(hist.steps[r], IsStopEvent) IN
        /\ IsPrefix(stops, StopOrder)
        /\ pc[r] = "stop1" => stops = <<"session_exit">> /\ sessionExits[target[r]] > 0
        /\ pc[r] = "stop2" => /\ stops = <<"session_exit", "stdio_exit">>
                              /\ stdioExits[target[r]] > 0
                              /\ \E s \in Runs : sessionExits[s] > 0
        /\ pc[r] = "done" => /\ stops = StopOrder
                             /\ \E s \in Runs : sessionExits[s] > 0
                             /\ \E s \in Runs : stdioExits[s] > 0
        /\ pc[r] = "failedStop" => "clear" \notin {stops[i] : i \in 1..Len(stops)}

\* C20 witness: a fully started session was stopped: its channel is closed,
\* its subprocess reaped, and the three stop steps are on record in order
C20_Witness ==
    /\ pc[1] = "done"
    /\ hist.steps[1] = StartOrder \o StopOrder
    /\ chan[1] = "closed" /\ proc[1] = "reaped"
    /\ _session = None

====
